---- MODULE Spec2Model ----
(***************************************************************************)
(* A model of the front end of nlPDFedit: the real-time client             *)
(* (services/websocketService.ts, in its socket.io and its native          *)
(* WebSocket variant), the chat hook (hooks/useSession.ts, useChat) and    *)
(* the upload widget (components/FileUpload.tsx).                          *)
(*                                                                         *)
(* Strings the code inspects (trim, includes) are sequences of one-        *)
(* character strings, so that the string functions are computed.           *)
(***************************************************************************)
EXTENDS Integers, Sequences, FiniteSets, Bags, TLC

(***************************************************************************)
(* Bounds of the model.                                                    *)
(***************************************************************************)
\* sockets the client may create in one run (connect calls, timers included)
MaxSockets == 6
\* transport closes the environment may produce in one run
MaxDrops == 6
\* sockets created and transport closes in one run with subscribers
MaxListenSockets == 2
MaxListenDrops == 1
\* subscriptions a caller makes in one run of the socket.io variant
MaxSubscribes == 1

\* callbacks subscribed to the handler arrays between two removeAllListeners
MaxHandlers == 2

\* connect calls and transport closes in one run that follows the promises
\* connect returns
MaxPromises == 2
MaxPromiseDrops == 2

\* entries of the detail array of a backend validation error
MaxDetail == 2

\* chat requests sent in one run, and requests awaiting a response at once
MaxSends == 2
MaxRequests == 2

\* uploads sent in one run, and files in one drop
MaxUploads == 2
MaxDropped == 2

\* websocketService.ts:8
maxReconnectAttempts == 5

Sessions == {"s1"}

\* the events a subscriber can listen to (websocketService.ts:83-105):
\* the general one, a typed one and the error one.  onOperationUpdate
\* (lines 95-99) is onChatMessage (lines 89-93) with another event name.
Events == {"message", "chat_message", "error"}

VARIABLES
    variant,            \* "io" (websocketService.ts:1-119) or "native" (120-191)
    limit,              \* what this run may do: [sockets, drops, promises]
    listening,          \* TRUE when the run exercises the subscriber interface
    socket,             \* io: this.socket, NULL or the socket object
    isConnected,        \* io: this.isConnected
    reconnectAttempts,  \* io: this.reconnectAttempts
    timers,             \* io: pending setTimeout callbacks, a bag
    ws,                 \* native: this.ws, NULL or the WebSocket object
    messageHandlers,    \* native: this.messageHandlers
    errorHandlers,      \* native: this.errorHandlers
    orphans,            \* live transports the service no longer references, a bag
    invoked,            \* subscriber handlers run by the last delivered push event
    settle,             \* what the last step did to the promise of a connect call
    sent,               \* what the last step handed to a transport to transmit
    hist                \* history of the run: counters of what happened

wsVars == <<variant, limit, listening, socket, isConnected, reconnectAttempts,
            timers, ws, messageHandlers, errorHandlers, orphans, invoked,
            settle, sent, hist>>

VARIABLES
    sessionId,          \* useChat: the sessionId it was given, "" before there is one
    messages,           \* useChat: the transcript
    isLoading,          \* useChat: isLoading
    error,              \* useChat: error, NoError for null
    requests,           \* requests to the backend awaiting their response, a bag
    sends,              \* requests POSTed to /api/chat/send so far
    call                \* the last step of the hook: [fn, arg]

chatVars == <<sessionId, messages, isLoading, error, requests, sends, call>>

VARIABLES
    uploadError,        \* FileUpload: error, NoError for null
    isUploading,        \* FileUpload: isUploading
    uploads,            \* uploads POSTed to the backend awaiting their response, a bag
    uploadCount,        \* uploads POSTed so far
    fileUploaded,       \* calls of onFileUploaded so far
    gesture             \* the last step of the widget: [fn, files]

uploadVars == <<uploadError, isUploading, uploads, uploadCount, fileUploaded, gesture>>

VARIABLES
    handled             \* apiService.handleError: [done, error, out], the error
                        \* it is given and, once it has run, how it came out

apiVars == <<handled>>

VARIABLES
    files,              \* App: files, the list of the session's files, by id
    loadingFiles,       \* PDFList: loadingFiles, the ids with a request under way
    listError,          \* PDFList: error, NoError for null
    deletes,            \* deletes sent to the backend awaiting their response, a bag
    fileDeleted         \* calls of onFileDeleted so far

listVars == <<files, loadingFiles, listError, deletes, fileDeleted>>

cfgVars == <<variant, limit, listening>>
ioVars == <<socket, isConnected, reconnectAttempts, timers>>
nativeVars == <<ws, messageHandlers, errorHandlers>>

vars == <<wsVars, chatVars, uploadVars, apiVars, listVars>>

(***************************************************************************)
(* Transports.  A socket.io socket is [st, life, subs, sid, promise,       *)
(* caught]: its state, whether the listeners connect() attached (lines     *)
(* 25-44) are still on it, the events a subscriber listens to on it, the   *)
(* session id of the connect call that made it, the state of the promise   *)
(* that call returned (its resolve and reject live in the listeners) and   *)
(* whether handleReconnect put its catch on that promise.  A native        *)
(* WebSocket is [st, promise].  The service holds at most one reference    *)
(* (this.socket, this.ws); every other transport that can still deliver    *)
(* an event is in the bag orphans.                                         *)
(***************************************************************************)
NoSocket == [st |-> "null"]

IsNull(s) == s.st = "null"

\* a transport that can still deliver events
IsLive(s) == s.st \in {"connecting", "open", "closing"}

BagOf(x) == SetToBag({x})

\* the bag b with the transport s added, when it can still deliver events
Keep(b, s) == IF IsLive(s) THEN b (+) BagOf(s) ELSE b

\* the transports of the run: the one the service references and the orphans
Live(cur) ==
    {[cur |-> TRUE, s |-> c] : c \in IF IsLive(cur) THEN {cur} ELSE {}}
        \cup {[cur |-> FALSE, s |-> o] : o \in BagToSet(orphans)}

\* invoked: whether the last step delivered a push event, the event, whether
\* it came on the transport the service references, whether its payload
\* parsed, and the subscriber handlers it ran, in order
NoPush == [push |-> FALSE, ev |-> "", cur |-> FALSE, parsed |-> FALSE,
           handlers |-> <<>>]

Pushed(ev, cur, parsed, handlers) ==
    [push |-> TRUE, ev |-> ev, cur |-> cur, parsed |-> parsed,
     handlers |-> handlers]

NoneSubscribed == [ev \in Events |-> <<>>]

\* settle: what the last step did to the promise a connect call returned.
\* ev is what the transport of that call reported ("open", "error", or
\* "none" when the step was no such report), fn the call the listener made
\* ("resolve", "reject" or "none"), was and now the state of the promise
\* before and after, life whether the listeners of connect() were on the
\* transport, caught whether the promise has the catch of handleReconnect
\* (line 66) on it, attempts the value of reconnectAttempts when the
\* listener ran
NoSettle == [ev |-> "none", fn |-> "none", was |-> "pending", now |-> "pending",
             life |-> TRUE, caught |-> FALSE, attempts |-> 0]

Settled(ev, fn, was, now, life, caught, attempts) ==
    IF was = "unfollowed" THEN NoSettle
    ELSE [ev |-> ev, fn |-> fn, was |-> was, now |-> now, life |-> life,
          caught |-> caught, attempts |-> attempts]

\* the promise of the connect call being made: a run follows the promises
\* of its first limit.promises connect calls
NewPromise == IF hist.connects < limit.promises THEN "pending" ELSE "unfollowed"

\* a promise that takes the outcome of the last call made to it
PromiseAfterLastCallWins(promise, outcome) == outcome

\* new Promise((resolve, reject) => ...), lines 16 and 126: the first call
\* of resolve or reject settles the promise, the later ones change nothing
PromiseAfter(promise, outcome) ==
    IF promise = "pending" THEN outcome ELSE promise

\* sent: whether the last step was a call of sendMessage, whether the
\* transport the service references was open at the call, and the frames
\* the call handed to that transport, in order
NoSend == [call |-> FALSE, open |-> FALSE, frames |-> <<>>]

Sends(open, frames) == [call |-> TRUE, open |-> open, frames |-> frames]

\* nothing is delivered to a subscriber, no promise is touched and nothing
\* is handed to a transport
Quiet == invoked' = NoPush /\ settle' = NoSettle /\ sent' = NoSend

Bump(h, f) == [h EXCEPT ![f] = @ + 1]

(***************************************************************************)
(* The socket.io variant (websocketService.ts:1-119).                      *)
(***************************************************************************)

\* a cap that is off by one
CanReconnectOffByOne(attempts) == attempts <= maxReconnectAttempts

\* handleReconnect, line 61: attempts remain
CanReconnect(attempts) == attempts < maxReconnectAttempts

\* handleReconnect, line 69: the setTimeout delay in ms, read after the
\* increment of line 62
ReconnectDelay(attempts) == 1000 * attempts

\* handleReconnect, lines 61-62: the counter after the call
AttemptsAfterReconnect(attempts) ==
    IF CanReconnect(attempts) THEN attempts + 1 ELSE attempts

\* a handleReconnect that counts the attempt and sets no timer
TimersAfterReconnectNoTimer(t, attempts, sid) == t

\* handleReconnect, lines 65-69: the pending timers after the call; the
\* callback closes over the session id of the connect call that attached it
TimersAfterReconnect(t, attempts, sid) ==
    IF CanReconnect(attempts)
    THEN t (+) BagOf([attempt |-> attempts + 1,
                      delay |-> ReconnectDelay(attempts + 1),
                      sid |-> sid])
    ELSE t

\* lines 18-23: io(...) makes a new socket; the one this.socket referenced is
\* neither closed nor told anything
NewSocket(sid, caught) ==
    [st |-> "connecting", life |-> TRUE, subs |-> {}, sid |-> sid,
     promise |-> NewPromise, caught |-> caught /\ NewPromise = "pending"]

\* connect(sessionId), lines 15-50, up to the return of the promise
DoConnect(sid, caught) ==
    /\ socket' = NewSocket(sid, caught)
    /\ orphans' = Keep(orphans, socket)

\* replace the transport h by s; a dead transport the service does not
\* reference is dropped
Put(h, s) ==
    IF h.cur
    THEN /\ socket' = s
         /\ orphans' = orphans
    ELSE /\ socket' = socket
         /\ orphans' = Keep(orphans (-) BagOf(h.s), s)

\* a caller calls connect(sessionId)
Connect(sid) ==
    /\ variant = "io"
    /\ hist.connects < limit.sockets
    /\ DoConnect(sid, FALSE)
    /\ hist' = Bump(hist, "connects")
    /\ Quiet
    /\ UNCHANGED <<chatVars, uploadVars, apiVars, listVars, cfgVars, isConnected, reconnectAttempts, timers, nativeVars>>

\* a timer of handleReconnect fires, lines 65-69: this.connect(sessionId)
TimerFire(t) ==
    /\ variant = "io"
    /\ hist.connects < limit.sockets
    /\ BagIn(t, timers)
    /\ timers' = timers (-) BagOf(t)
    /\ DoConnect(t.sid, TRUE)
    /\ hist' = Bump(Bump(hist, "connects"), "reconnects")
    /\ Quiet
    /\ UNCHANGED <<chatVars, uploadVars, apiVars, listVars, cfgVars, isConnected, reconnectAttempts, nativeVars>>

\* a 'connect_error' listener that rejects whatever the attempt
RejectsAtAnyAttempt(attempts) == TRUE

\* line 41: if (this.reconnectAttempts === 0) reject(error)
RejectsAt(attempts) == attempts = 0

\* the transport of h opens: the 'connect' listener, lines 25-30
OnConnect(h) ==
    /\ variant = "io"
    /\ h.s.st = "connecting"
    /\ LET now == IF h.s.life THEN PromiseAfter(h.s.promise, "resolved")
                  ELSE h.s.promise
       IN  /\ Put(h, [h.s EXCEPT !.st = "open", !.promise = now])
           /\ settle' = Settled("open", IF h.s.life THEN "resolve" ELSE "none",
                                h.s.promise, now, h.s.life, h.s.caught,
                                reconnectAttempts)
    /\ isConnected' = IF h.s.life THEN TRUE ELSE isConnected
    /\ reconnectAttempts' = IF h.s.life THEN 0 ELSE reconnectAttempts
    /\ invoked' = NoPush
    /\ sent' = NoSend
    /\ UNCHANGED <<chatVars, uploadVars, apiVars, listVars, cfgVars, timers, nativeVars, hist>>

\* the transport of h closes: the 'disconnect' listener, lines 32-36.  The
\* library may go on to reopen the same socket (again) or leave it closed.
OnDisconnect(h, again) ==
    /\ variant = "io"
    /\ h.s.st = "open"
    /\ hist.drops < limit.drops
    /\ Put(h, [h.s EXCEPT !.st = IF again THEN "connecting" ELSE "closed"])
    /\ isConnected' = IF h.s.life THEN FALSE ELSE isConnected
    /\ reconnectAttempts' =
          IF h.s.life THEN AttemptsAfterReconnect(reconnectAttempts)
          ELSE reconnectAttempts
    /\ timers' =
          IF h.s.life THEN TimersAfterReconnect(timers, reconnectAttempts, h.s.sid)
          ELSE timers
    /\ hist' = [Bump(hist, "drops") EXCEPT
                   !.capped = @ \/ (h.s.life /\ ~CanReconnect(reconnectAttempts))]
    /\ Quiet
    /\ UNCHANGED <<chatVars, uploadVars, apiVars, listVars, cfgVars, nativeVars>>

\* the transport of h fails to open: the 'connect_error' listener, lines 38-44
OnConnectError(h, again) ==
    /\ variant = "io"
    /\ h.s.st = "connecting"
    /\ LET rejects == h.s.life /\ RejectsAt(reconnectAttempts)
           now == IF rejects THEN PromiseAfter(h.s.promise, "rejected")
                  ELSE h.s.promise
       IN  /\ Put(h, [h.s EXCEPT !.st = IF again THEN "connecting" ELSE "closed",
                                 !.promise = now])
           /\ settle' = Settled("error", IF rejects THEN "reject" ELSE "none",
                                h.s.promise, now, h.s.life, h.s.caught,
                                reconnectAttempts)
    /\ isConnected' = IF h.s.life THEN FALSE ELSE isConnected
    /\ invoked' = NoPush
    /\ sent' = NoSend
    /\ UNCHANGED <<chatVars, uploadVars, apiVars, listVars, cfgVars, reconnectAttempts, timers, nativeVars, hist>>

\* a disconnect that cancels the pending reconnect timers
TimersAfterDisconnectCancelled(t) == EmptyBag

\* disconnect(), lines 52-58, has no clearTimeout: the timers handleReconnect
\* set stay pending
TimersAfterDisconnect(t) == t

\* disconnect(), lines 52-58.  socket.disconnect() on a connected socket
\* emits 'disconnect' to its listeners before it returns, so the listener of
\* lines 32-36 runs first; the socket is destroyed and delivers nothing more.
Disconnect ==
    /\ variant = "io"
    /\ ~IsNull(socket)
    /\ LET fired == socket.st = "open" /\ socket.life
       IN  /\ reconnectAttempts' =
                 IF fired THEN AttemptsAfterReconnect(reconnectAttempts)
                 ELSE reconnectAttempts
           /\ timers' =
                 IF fired
                 THEN TimersAfterReconnect(TimersAfterDisconnect(timers),
                                           reconnectAttempts, socket.sid)
                 ELSE TimersAfterDisconnect(timers)
           /\ hist' = [hist EXCEPT
                          !.clean = FALSE,
                          !.capped = @ \/ (fired /\ ~CanReconnect(reconnectAttempts))]
    /\ socket' = NoSocket
    /\ isConnected' = FALSE
    /\ Quiet
    /\ UNCHANGED <<chatVars, uploadVars, apiVars, listVars, cfgVars, orphans, nativeVars>>

\* messages a caller may send
Msgs == {"m1"}

\* line 76: if (this.socket && this.isConnected)
MaySend == ~IsNull(socket) /\ isConnected

\* line 77: this.socket.emit('message', message), as the frame given to the
\* socket
Emitted(m) == <<"message", m>>

\* sendMessage(message), lines 75-81
WsSendMessage(m) ==
    /\ variant = "io"
    /\ sent' = Sends(~IsNull(socket) /\ socket.st = "open",
                     IF MaySend THEN <<Emitted(m)>> ELSE <<>>)
    /\ invoked' = NoPush
    /\ settle' = NoSettle
    /\ UNCHANGED <<chatVars, uploadVars, apiVars, listVars, cfgVars, ioVars, nativeVars, orphans, hist>>

\* onMessage, onChatMessage, onOperationUpdate, onError, lines 83-105:
\* socket.on(ev, callback) on the socket of the moment, nothing without one
Subscribe(ev) ==
    /\ variant = "io"
    /\ listening
    /\ ~IsNull(socket)
    /\ hist.subscribes < MaxSubscribes
    /\ socket' = [socket EXCEPT !.subs = @ \cup {ev}]
    /\ hist' = [Bump(hist, "subscribes") EXCEPT
                   !.cleared = FALSE,
                   !.subscribed[ev] = <<ev>>]
    /\ Quiet
    /\ UNCHANGED <<chatVars, uploadVars, apiVars, listVars, cfgVars, isConnected, reconnectAttempts, timers, nativeVars, orphans>>

\* removeAllListeners(), lines 107-111: socket.removeAllListeners() takes
\* every listener off the socket of the moment, those of connect() included
RemoveAllListeners ==
    /\ variant = "io"
    /\ listening
    /\ socket' = IF IsNull(socket) THEN socket
                 ELSE [socket EXCEPT !.life = FALSE, !.subs = {}]
    /\ hist' = [hist EXCEPT !.clean = FALSE, !.cleared = TRUE,
                            !.subscribed = NoneSubscribed]
    /\ Quiet
    /\ UNCHANGED <<chatVars, uploadVars, apiVars, listVars, cfgVars, isConnected, reconnectAttempts, timers, nativeVars, orphans>>

\* the listeners socket.io runs for the event ev on the socket s: those
\* socket.on(ev, ...) put on this socket, lines 83-105
ListenersFor(s, ev) == IF ev \in s.subs THEN <<ev>> ELSE <<>>

\* the backend emits the event ev on the open transport of h
Push(h, ev) ==
    /\ variant = "io"
    /\ listening
    /\ h.s.st = "open"
    /\ settle' = NoSettle
    /\ sent' = NoSend
    /\ invoked' = Pushed(ev, h.cur, TRUE, ListenersFor(h.s, ev))
    /\ UNCHANGED <<chatVars, uploadVars, apiVars, listVars, cfgVars, ioVars, nativeVars, orphans, hist>>

NextIO ==
    \/ \E sid \in Sessions : Connect(sid)
    \/ \E t \in BagToSet(timers) : TimerFire(t)
    \/ \E h \in Live(socket) : OnConnect(h)
    \/ \E h \in Live(socket), again \in BOOLEAN : OnDisconnect(h, again)
    \/ \E h \in Live(socket), again \in BOOLEAN : OnConnectError(h, again)
    \/ Disconnect
    \/ \E ev \in Events : Subscribe(ev)
    \/ RemoveAllListeners
    \/ \E h \in Live(socket), ev \in Events : Push(h, ev)

(***************************************************************************)
(* The native WebSocket variant (websocketService.ts:120-191).             *)
(***************************************************************************)

\* subscriber callbacks a caller may register
Handlers == {"h1", "h2"}

\* what the backend may send: a payload JSON.parse accepts, or one it rejects
Payloads == {"json", "garbage"}

\* replace the WebSocket h by s
PutWs(h, s) ==
    IF h.cur
    THEN /\ ws' = s
         /\ orphans' = orphans
    ELSE /\ ws' = ws
         /\ orphans' = Keep(orphans (-) BagOf(h.s), s)

\* connect(sessionId), lines 125-158: new WebSocket(...) replaces this.ws,
\* whose former holder stays open
NativeConnect(sid) ==
    /\ variant = "native"
    /\ hist.connects < limit.sockets
    /\ ws' = [st |-> "connecting", promise |-> NewPromise]
    /\ orphans' = Keep(orphans, ws)
    /\ hist' = Bump(hist, "connects")
    /\ Quiet
    /\ UNCHANGED <<chatVars, uploadVars, apiVars, listVars, cfgVars, ioVars, messageHandlers, errorHandlers>>

\* ws.onopen, lines 130-133
OnOpen(h) ==
    /\ variant = "native"
    /\ h.s.st = "connecting"
    /\ LET now == PromiseAfter(h.s.promise, "resolved")
       IN  /\ PutWs(h, [h.s EXCEPT !.st = "open", !.promise = now])
           /\ settle' = Settled("open", "resolve", h.s.promise, now, TRUE, FALSE, 0)
    /\ invoked' = NoPush
    /\ sent' = NoSend
    /\ UNCHANGED <<chatVars, uploadVars, apiVars, listVars, cfgVars, ioVars, messageHandlers, errorHandlers, hist>>

\* an onmessage that hands the payload to the handlers unparsed
HandlersForMessageUnparsed(payload) == messageHandlers

\* ws.onmessage, lines 135-142: JSON.parse, then every message handler in
\* order; a payload that does not parse is caught and logged
HandlersForMessage(payload) ==
    IF payload = "json" THEN messageHandlers ELSE <<>>

OnMessage(h, payload) ==
    /\ variant = "native"
    /\ h.s.st = "open"
    /\ settle' = NoSettle
    /\ sent' = NoSend
    /\ invoked' = Pushed("message", h.cur, payload = "json", HandlersForMessage(payload))
    /\ UNCHANGED <<chatVars, uploadVars, apiVars, listVars, cfgVars, ioVars, nativeVars, orphans, hist>>

\* ws.onerror, lines 144-148: every error handler in order, then reject; the
\* browser closes a WebSocket that reported an error
OnError(h) ==
    /\ variant = "native"
    /\ h.s.st \in {"connecting", "open"}
    /\ LET now == PromiseAfter(h.s.promise, "rejected")
       IN  /\ PutWs(h, [h.s EXCEPT !.st = "closing", !.promise = now])
           /\ settle' = Settled("error", "reject", h.s.promise, now, TRUE, FALSE, 0)
    /\ sent' = NoSend
    /\ invoked' = Pushed("error", h.cur, TRUE, errorHandlers)
    /\ UNCHANGED <<chatVars, uploadVars, apiVars, listVars, cfgVars, ioVars, messageHandlers, errorHandlers, hist>>

\* ws.onclose, lines 150-153: this.ws = null, whichever WebSocket closed; the
\* one this.ws referenced, when it is another, stays open with no reference
OnClose(h) ==
    /\ variant = "native"
    /\ hist.drops < limit.drops
    /\ ws' = NoSocket
    /\ orphans' = IF h.cur THEN orphans
                  ELSE Keep(orphans (-) BagOf(h.s), ws)
    /\ hist' = Bump(hist, "drops")
    /\ Quiet
    /\ UNCHANGED <<chatVars, uploadVars, apiVars, listVars, cfgVars, ioVars, messageHandlers, errorHandlers>>

\* onMessage(handler), lines 160-162
NativeOnMessage(f) ==
    /\ variant = "native"
    /\ Len(hist.subscribed["message"]) + Len(hist.subscribed["error"]) < MaxHandlers
    /\ messageHandlers' = Append(messageHandlers, f)
    /\ hist' = [hist EXCEPT !.cleared = FALSE,
                            !.subscribed["message"] = Append(@, f)]
    /\ Quiet
    /\ UNCHANGED <<chatVars, uploadVars, apiVars, listVars, cfgVars, ioVars, ws, errorHandlers, orphans>>

\* onError(handler), lines 164-166
NativeOnError(f) ==
    /\ variant = "native"
    /\ Len(hist.subscribed["message"]) + Len(hist.subscribed["error"]) < MaxHandlers
    /\ errorHandlers' = Append(errorHandlers, f)
    /\ hist' = [hist EXCEPT !.cleared = FALSE,
                            !.subscribed["error"] = Append(@, f)]
    /\ Quiet
    /\ UNCHANGED <<chatVars, uploadVars, apiVars, listVars, cfgVars, ioVars, ws, messageHandlers, orphans>>

\* removeAllListeners(), lines 168-171
NativeRemoveAllListeners ==
    /\ variant = "native"
    /\ messageHandlers' = <<>>
    /\ errorHandlers' = <<>>
    /\ hist' = [hist EXCEPT !.clean = FALSE, !.cleared = TRUE,
                            !.subscribed = NoneSubscribed]
    /\ Quiet
    /\ UNCHANGED <<chatVars, uploadVars, apiVars, listVars, cfgVars, ioVars, ws, orphans>>

\* JSON.stringify(message), line 175
Stringify(m) == <<"json", m>>

\* line 174: this.ws && this.ws.readyState === WebSocket.OPEN
NativeMaySend == ~IsNull(ws) /\ ws.st = "open"

\* sendMessage(message), lines 173-179
NativeSendMessage(m) ==
    /\ variant = "native"
    /\ sent' = Sends(~IsNull(ws) /\ ws.st = "open",
                     IF NativeMaySend THEN <<Stringify(m)>> ELSE <<>>)
    /\ invoked' = NoPush
    /\ settle' = NoSettle
    /\ UNCHANGED <<chatVars, uploadVars, apiVars, listVars, cfgVars, ioVars, nativeVars, orphans, hist>>

\* disconnect(), lines 181-187: ws.close() (onclose comes later),
\* this.ws = null, then removeAllListeners()
NativeDisconnect ==
    /\ variant = "native"
    /\ ws' = NoSocket
    /\ orphans' = IF IsLive(ws) THEN orphans (+) BagOf([ws EXCEPT !.st = "closing"])
                  ELSE orphans
    /\ messageHandlers' = <<>>
    /\ errorHandlers' = <<>>
    /\ hist' = [hist EXCEPT !.clean = FALSE, !.cleared = TRUE]
    /\ Quiet
    /\ UNCHANGED <<chatVars, uploadVars, apiVars, listVars, cfgVars, ioVars>>

NextNative ==
    \/ \E sid \in Sessions : NativeConnect(sid)
    \/ \E h \in Live(ws) : OnOpen(h)
    \/ \E h \in Live(ws), payload \in Payloads : OnMessage(h, payload)
    \/ \E h \in Live(ws) : OnError(h)
    \/ \E h \in Live(ws) : OnClose(h)
    \/ \E f \in Handlers : NativeOnMessage(f)
    \/ \E f \in Handlers : NativeOnError(f)
    \/ NativeRemoveAllListeners
    \/ NativeDisconnect

(***************************************************************************)
(* The chat hook (hooks/useSession.ts:29-130, useChat) over the HTTP       *)
(* client (services/apiService.ts).  Each action is one run of a callback  *)
(* up to its await, or its continuation when the response arrives; the     *)
(* state updates of one such run are applied together.  The id and the     *)
(* timestamp of a message (Date.now()) are left out.                       *)
(***************************************************************************)

NoError == "<null>"

\* what a caller may type
Inputs == {<<>>, <<" ">>, <<"a">>, <<" ", "a", " ">>, <<"b", " ", "b">>}

RECURSIVE TrimStart(_)
\* String.prototype.trim, the leading part
TrimStart(str) ==
    IF str # <<>> /\ Head(str) = " " THEN TrimStart(Tail(str)) ELSE str

RECURSIVE TrimEnd(_)
\* String.prototype.trim, the trailing part
TrimEnd(str) ==
    IF str # <<>> /\ str[Len(str)] = " "
    THEN TrimEnd(SubSeq(str, 1, Len(str) - 1))
    ELSE str

\* content.trim(), lines 51, 59, 69
Trim(str) == TrimEnd(TrimStart(str))

\* errors a request may be rejected with: the backend's {error} payload, a
\* transport error with a message, an error with neither
Errs == {[respError |-> "backend says no", message |-> "Request failed"],
         [respError |-> "", message |-> "Network Error"],
         [respError |-> "", message |-> ""]}

\* JavaScript values of the fields handleError reads.  A string is the
\* sequence of its pieces, so that joining strings is concatenation; an
\* array is the array of {msg} objects of a backend validation error, kept
\* as the sequence of its msg strings; an object is any value that is
\* neither undefined, a string nor an array
Undefined == [t |-> "undefined", s |-> <<>>, items |-> <<>>]

Str(pieces) == [t |-> "string", s |-> pieces, items |-> <<>>]

Arr(items) == [t |-> "array", s |-> <<>>, items |-> items]

Obj == [t |-> "object", s |-> <<>>, items |-> <<>>]

\* if (v): undefined and the empty string are falsy
Truthy(v) == v.t \in {"object", "array"} \/ (v.t = "string" /\ v.s # <<>>)

\* the response of an error: absent, without a body, or with the body
\* {error, detail}
NoResponse == [present |-> FALSE, data |-> FALSE, error |-> Undefined,
               detail |-> Undefined]

NoData == [present |-> TRUE, data |-> FALSE, error |-> Undefined,
           detail |-> Undefined]

Data(err, detail) == [present |-> TRUE, data |-> TRUE, error |-> err,
                      detail |-> detail]

\* what a catch clause may hand to handleError(error: any): null, undefined
\* or an object {response, message}
NullError == [t |-> "null", response |-> NoResponse, message |-> Undefined]

UndefinedError == [t |-> "undefined", response |-> NoResponse, message |-> Undefined]

ErrorObject(response, message) ==
    [t |-> "object", response |-> response, message |-> message]

\* how a call came out: it returned value, or it threw
Returns(value) == [throws |-> FALSE, value |-> value]

Throws == [throws |-> TRUE, value |-> Undefined]

\* error.response?.data?.error, line 119: reading a property of null or
\* undefined throws, the optional chain after it gives undefined
ResponseDataError(err) ==
    IF err.response.present /\ err.response.data
    THEN err.response.error
    ELSE Undefined

\* handleError(error), apiService.ts:118-125
handleError(err) ==
    IF err.t \in {"null", "undefined"} THEN Throws
    ELSE IF Truthy(ResponseDataError(err)) THEN Returns(ResponseDataError(err))
    ELSE IF Truthy(err.message) THEN Returns(err.message)
    ELSE Returns(Str(<<"An unexpected error occurred">>))

\* an error of Errs as the object the HTTP client rejects with
RejectedWith(e) ==
    ErrorObject(IF e.respError # "" THEN Data(Str(<<e.respError>>), Undefined)
                ELSE NoResponse,
                IF e.message # "" THEN Str(<<e.message>>) ELSE Undefined)

\* apiService.handleError on an error of Errs: the string it returns
HandleError(e) == handleError(RejectedWith(e)).value.s[1]

\* the msg strings a backend validation error may carry
DetailMsgs == {<<"a">>, <<"b">>}

RECURSIVE SeqsUpTo(_, _)
\* the sequences over S of length at most n
SeqsUpTo(S, n) ==
    IF n = 0 THEN {<<>>}
    ELSE LET shorter == SeqsUpTo(S, n - 1)
         IN  shorter \cup {Append(q, x) : q \in shorter, x \in S}

\* the errors handleError is tried on
ErrorShapes ==
    LET errors == {Undefined, Str(<<>>), Str(<<"backend says no">>), Obj}
        details == {Undefined, Str(<<"not found">>)}
                       \cup {Arr(q) : q \in SeqsUpTo(DetailMsgs, MaxDetail)}
        responses == {NoResponse, NoData}
                         \cup {Data(e, d) : e \in errors, d \in details}
        msgs == {Undefined, Str(<<>>), Str(<<"x">>)}
    IN  {NullError, UndefinedError}
            \cup {ErrorObject(r, m) : r \in responses, m \in msgs}

NotHandled(err) == [done |-> FALSE, error |-> err, out |-> Throws]

InitApi == handled = NotHandled(NullError)

\* a caller hands the error to handleError
ApplyHandleError ==
    /\ ~handled.done
    /\ handled' = [handled EXCEPT !.done = TRUE, !.out = handleError(handled.error)]
    /\ UNCHANGED <<wsVars, chatVars, uploadVars, listVars>>

\* the assistant message the backend answers a send with
Reply(sid) == [content |-> <<"done">>, message_type |-> "assistant",
               show_retry |-> FALSE, session_id |-> sid]

\* the histories GET /api/chat/history may return: what the backend was sent
\* and what it answered
Histories(sid) ==
    {<<>>,
     <<[content |-> <<"a">>, message_type |-> "user",
        show_retry |-> FALSE, session_id |-> sid], Reply(sid)>>}

\* an optimistic message that carries the input as typed
UserMessageUntrimmed(content) ==
    [content |-> content, message_type |-> "user",
     show_retry |-> FALSE, session_id |-> sessionId]

\* the optimistic message of lines 57-63
UserMessage(content) ==
    [content |-> Trim(content), message_type |-> "user",
     show_retry |-> FALSE, session_id |-> sessionId]

\* a synthetic message that offers no retry
ErrorMessageNoRetry(errorMessage, sid) ==
    [content |-> <<"Error: ", errorMessage>>, message_type |-> "error",
     show_retry |-> FALSE, session_id |-> sid]

\* the synthetic message of lines 80-91
ErrorMessage(errorMessage, sid) ==
    [content |-> <<"Error: ", errorMessage>>, message_type |-> "error",
     show_retry |-> TRUE, session_id |-> sid]

\* a guard that lets blank input through
AcceptedWhenBlank(content) == sessionId # ""

\* line 51: sendMessage goes on
Accepted(content) == sessionId # "" /\ Trim(content) # <<>>

\* lines 67-73: the request of a send
SendRequest(content) ==
    [op |-> "send", content |-> Trim(content), session_id |-> sessionId]

\* a retry that leaves the error messages in
WithoutErrorsKeepsAll(msgs) == msgs

\* line 103: prev.filter(msg => msg.message_type !== 'error')
WithoutErrors(msgs) == SelectSeq(msgs, LAMBDA m : m.message_type # "error")

\* line 100: [...messages].reverse().find(msg => msg.message_type === 'user')
UserMessages(msgs) == SelectSeq(msgs, LAMBDA m : m.message_type = "user")

HasUserMessage(msgs) == UserMessages(msgs) # <<>>

LastUserMessage(msgs) == UserMessages(msgs)[Len(UserMessages(msgs))]

\* a reply set from the transcript of the render that sent the request,
\* which lacks the optimistic message
WithReplyStale(msgs, reply) ==
    Append(SubSeq(msgs, 1, Len(msgs) - 1), reply)

\* lines 74 and 93: setMessages(prev => [...prev, message])
WithReply(msgs, reply) == Append(msgs, reply)

\* room for one more request in this run
MayRequest == BagCardinality(requests) < MaxRequests

\* sendMessage(content), lines 50-73, from the transcript base up to the await
SendFrom(base, content) ==
    IF Accepted(content)
    THEN /\ isLoading' = TRUE
         /\ error' = NoError
         /\ messages' = Append(base, UserMessage(content))
         /\ requests' = requests (+) BagOf(SendRequest(content))
         /\ sends' = sends + 1
    ELSE /\ messages' = base
         /\ UNCHANGED <<isLoading, error, requests, sends>>

\* useSession's effect, lines 7-18: the hook is given a session id
SetSession ==
    /\ sessionId = ""
    /\ sessionId' = "s1"
    /\ call' = [fn |-> "setSession", arg |-> <<>>]
    /\ UNCHANGED <<apiVars, listVars, wsVars, uploadVars, messages, isLoading, error, requests, sends>>

\* a caller calls sendMessage(content)
SendMessage(content) ==
    /\ sends < MaxSends
    /\ MayRequest
    /\ SendFrom(messages, content)
    /\ call' = [fn |-> "sendMessage", arg |-> content]
    /\ UNCHANGED <<apiVars, listVars, wsVars, uploadVars, sessionId>>

\* lines 73-74 and 94-96: the backend answers the send r
SendResolved(r) ==
    /\ BagIn(r, requests) /\ r.op = "send"
    /\ requests' = requests (-) BagOf(r)
    /\ messages' = WithReply(messages, Reply(r.session_id))
    /\ isLoading' = FALSE
    /\ call' = [fn |-> "sendResolved", arg |-> r.content]
    /\ UNCHANGED <<apiVars, listVars, wsVars, uploadVars, sessionId, error, sends>>

\* lines 75-96: the send r is rejected with e
SendRejected(r, e) ==
    /\ BagIn(r, requests) /\ r.op = "send"
    /\ requests' = requests (-) BagOf(r)
    /\ error' = HandleError(e)
    /\ messages' = WithReply(messages, ErrorMessage(HandleError(e), r.session_id))
    /\ isLoading' = FALSE
    /\ call' = [fn |-> "sendRejected", arg |-> r.content]
    /\ UNCHANGED <<apiVars, listVars, wsVars, uploadVars, sessionId, sends>>

\* a caller calls retryLastMessage(), lines 99-106
RetryLastMessage ==
    /\ sends < MaxSends
    /\ MayRequest
    /\ IF HasUserMessage(messages)
       THEN SendFrom(WithoutErrors(messages), LastUserMessage(messages).content)
       ELSE UNCHANGED <<messages, isLoading, error, requests, sends>>
    /\ call' = [fn |-> "retryLastMessage", arg |-> <<>>]
    /\ UNCHANGED <<apiVars, listVars, wsVars, uploadVars, sessionId>>

\* a caller calls clearHistory(), lines 108-112, up to the await
ClearHistory ==
    /\ MayRequest
    /\ requests' = IF sessionId # ""
                   THEN requests (+) BagOf([op |-> "clear", session_id |-> sessionId])
                   ELSE requests
    /\ call' = [fn |-> "clearHistory", arg |-> <<>>]
    /\ UNCHANGED <<apiVars, listVars, wsVars, uploadVars, sessionId, messages, isLoading, error, sends>>

\* lines 113-114: the backend has cleared the history
ClearResolved(r) ==
    /\ BagIn(r, requests) /\ r.op = "clear"
    /\ requests' = requests (-) BagOf(r)
    /\ messages' = <<>>
    /\ error' = NoError
    /\ call' = [fn |-> "clearResolved", arg |-> <<>>]
    /\ UNCHANGED <<apiVars, listVars, wsVars, uploadVars, sessionId, isLoading, sends>>

\* a clear that empties the transcript although the backend refused
ClearRejectedEmpties(r, e) ==
    /\ BagIn(r, requests) /\ r.op = "clear"
    /\ requests' = requests (-) BagOf(r)
    /\ error' = HandleError(e)
    /\ messages' = <<>>
    /\ call' = [fn |-> "clearRejected", arg |-> <<>>]
    /\ UNCHANGED <<apiVars, listVars, wsVars, uploadVars, sessionId, isLoading, sends>>

\* lines 115-118: the clear r is rejected with e
ClearRejected(r, e) ==
    /\ BagIn(r, requests) /\ r.op = "clear"
    /\ requests' = requests (-) BagOf(r)
    /\ error' = HandleError(e)
    /\ call' = [fn |-> "clearRejected", arg |-> <<>>]
    /\ UNCHANGED <<apiVars, listVars, wsVars, uploadVars, sessionId, messages, isLoading, sends>>

\* a caller calls loadChatHistory(), lines 38-42, up to the await
LoadChatHistory ==
    /\ MayRequest
    /\ requests' = IF sessionId # ""
                   THEN requests (+) BagOf([op |-> "load", session_id |-> sessionId])
                   ELSE requests
    /\ call' = [fn |-> "loadChatHistory", arg |-> <<>>]
    /\ UNCHANGED <<apiVars, listVars, wsVars, uploadVars, sessionId, messages, isLoading, error, sends>>

\* line 43: the backend returns the history
LoadResolved(r, history) ==
    /\ BagIn(r, requests) /\ r.op = "load"
    /\ requests' = requests (-) BagOf(r)
    /\ messages' = history
    /\ call' = [fn |-> "loadResolved", arg |-> <<>>]
    /\ UNCHANGED <<apiVars, listVars, wsVars, uploadVars, sessionId, isLoading, error, sends>>

\* lines 44-47: the load r is rejected
LoadRejected(r) ==
    /\ BagIn(r, requests) /\ r.op = "load"
    /\ requests' = requests (-) BagOf(r)
    /\ error' = "Failed to load chat history"
    /\ call' = [fn |-> "loadRejected", arg |-> <<>>]
    /\ UNCHANGED <<apiVars, listVars, wsVars, uploadVars, sessionId, messages, isLoading, sends>>

InitChat ==
    /\ sessionId = ""
    /\ messages = <<>>
    /\ isLoading = FALSE
    /\ error = NoError
    /\ requests = EmptyBag
    /\ sends = 0
    /\ call = [fn |-> "none", arg |-> <<>>]

NextChat ==
    \/ SetSession
    \/ \E content \in Inputs : SendMessage(content)
    \/ \E r \in BagToSet(requests) : SendResolved(r)
    \/ \E r \in BagToSet(requests), e \in Errs : SendRejected(r, e)
    \/ RetryLastMessage
    \/ ClearHistory
    \/ \E r \in BagToSet(requests) : ClearResolved(r)
    \/ \E r \in BagToSet(requests), e \in Errs : ClearRejected(r, e)
    \/ LoadChatHistory
    \/ \E r \in BagToSet(requests) :
            \E history \in Histories(r.session_id) : LoadResolved(r, history)
    \/ \E r \in BagToSet(requests) : LoadRejected(r)

(***************************************************************************)
(* The upload widget (components/FileUpload.tsx:1-152).  A file is         *)
(* [type, size]: its MIME type, a string, and its size in bytes.           *)
(***************************************************************************)

\* FileUpload.tsx:26
MaxFileSize == 10 * 1024 * 1024

Pdf == <<"p", "d", "f">>

\* MIME types a browser may report: application/pdf, image/png, none
Types == {<<"a", "p", "p", "/", "p", "d", "f">>, <<"i", "m", "g", "/", "p", "n", "g">>, <<>>}

Sizes == {MaxFileSize, MaxFileSize + 1}

Files == [type : Types, size : Sizes]

\* the lists of files of at most n files
RECURSIVE FileLists(_)
FileLists(n) ==
    IF n = 0 THEN {<<>>}
    ELSE FileLists(n - 1)
            \cup {Append(l, f) : l \in {x \in FileLists(n - 1) : Len(x) = n - 1}, f \in Files}

\* String.prototype.includes
Includes(str, sub) ==
    \E i \in 1..(Len(str) - Len(sub) + 1) : SubSeq(str, i, i + Len(sub) - 1) = sub

\* lines 20 and 44: file.type.includes('pdf')
IsPdfType(file) == Includes(file.type, Pdf)

\* line 26: file.size > 10 * 1024 * 1024
TooLarge(file) == file.size > MaxFileSize

\* line 44: files.find(file => file.type.includes('pdf')), as the files found
PdfFiles(fs) == SelectSeq(fs, IsPdfType)

\* uploadFile(file), lines 55-60, up to the await
UploadFile(file) ==
    /\ isUploading' = TRUE
    /\ uploadError' = NoError
    /\ uploads' = uploads (+) BagOf([file |-> file])
    /\ uploadCount' = uploadCount + 1

\* the file picker changes, lines 15-32; the input is disabled while an
\* upload is under way (line 140) and takes one file
HandleFileSelect(fs) ==
    /\ ~isUploading
    /\ uploadCount < MaxUploads
    /\ Len(fs) <= 1
    /\ gesture' = [fn |-> "handleFileSelect", files |-> fs]
    /\ IF fs = <<>>
       THEN UNCHANGED <<uploadError, isUploading, uploads, uploadCount>>
       ELSE IF ~IsPdfType(fs[1])
       THEN /\ uploadError' = "Please select a PDF file"
            /\ UNCHANGED <<isUploading, uploads, uploadCount>>
       ELSE IF TooLarge(fs[1])
       THEN /\ uploadError' = "File size must be less than 10MB"
            /\ UNCHANGED <<isUploading, uploads, uploadCount>>
       ELSE UploadFile(fs[1])
    /\ UNCHANGED <<apiVars, listVars, wsVars, chatVars, fileUploaded>>

\* files are dropped on the widget, lines 39-53
HandleDrop(fs) ==
    /\ uploadCount < MaxUploads
    /\ gesture' = [fn |-> "handleDrop", files |-> fs]
    /\ IF PdfFiles(fs) = <<>>
       THEN /\ uploadError' = "Please drop a PDF file"
            /\ UNCHANGED <<isUploading, uploads, uploadCount>>
       ELSE UploadFile(Head(PdfFiles(fs)))
    /\ UNCHANGED <<apiVars, listVars, wsVars, chatVars, fileUploaded>>

\* response.file_id, line 64: the id the backend gives the file it stores,
\* another one for every file
FileId == fileUploaded + 1

\* App.handleFileUpload, tailwind.config.js:66-68
WithFile(list, id) == Append(list, id)

\* lines 60-79 and 83-85: the backend has stored the file of u;
\* onFileUploaded(newFile), line 74, is the handleFileUpload of App
UploadResolved(u) ==
    /\ BagIn(u, uploads)
    /\ uploads' = uploads (-) BagOf(u)
    /\ fileUploaded' = fileUploaded + 1
    /\ files' = WithFile(files, FileId)
    /\ isUploading' = FALSE
    /\ gesture' = [fn |-> "uploadResolved", files |-> <<u.file>>]
    /\ UNCHANGED <<apiVars, wsVars, chatVars, uploadError, uploadCount,
                   loadingFiles, listError, deletes, fileDeleted>>

\* lines 80-85: the upload u is rejected with e
UploadRejected(u, e) ==
    /\ BagIn(u, uploads)
    /\ uploads' = uploads (-) BagOf(u)
    /\ uploadError' = HandleError(e)
    /\ isUploading' = FALSE
    /\ gesture' = [fn |-> "uploadRejected", files |-> <<u.file>>]
    /\ UNCHANGED <<apiVars, listVars, wsVars, chatVars, uploadCount, fileUploaded>>

(***************************************************************************)
(* The file list (PDFList, unnamed/part_001:180-362) and the list of files *)
(* App keeps for it (tailwind.config.js:33, 66-72).  A run is one load of  *)
(* the page: handleNewSession (tailwind.config.js:74-78) reloads it.       *)
(***************************************************************************)

\* window.confirm(...), line 236: ok is the user's answer
Confirmed(ok) == ok

\* a parent that leaves the list as it is
WithoutFileKeepsAll(list, id) == list

\* App.handleFileDelete, tailwind.config.js:70-72
WithoutFile(list, id) == SelectSeq(list, LAMBDA f : f # id)

\* handleDelete(file), lines 235-243, up to the await; the button of a file
\* is in the list and is disabled while the file is loading (line 344)
HandleDelete(id, ok) ==
    /\ \E i \in 1..Len(files) : files[i] = id
    /\ id \notin loadingFiles
    /\ IF ~Confirmed(ok)
       THEN /\ gesture' = [fn |-> "deleteCancelled", files |-> <<>>]
            /\ UNCHANGED <<loadingFiles, listError, deletes>>
       ELSE /\ gesture' = [fn |-> "handleDelete", files |-> <<>>]
            /\ loadingFiles' = loadingFiles \cup {id}
            /\ listError' = NoError
            /\ deletes' = deletes (+) BagOf([id |-> id])
    /\ UNCHANGED <<apiVars, wsVars, chatVars, files, fileDeleted, uploadError,
                   isUploading, uploads, uploadCount, fileUploaded>>

\* lines 243-244 and 249-255: the backend has deleted the file of d;
\* onFileDeleted(file.id) is the handleFileDelete of App
DeleteResolved(d) ==
    /\ BagIn(d, deletes)
    /\ deletes' = deletes (-) BagOf(d)
    /\ fileDeleted' = fileDeleted + 1
    /\ files' = WithoutFile(files, d.id)
    /\ loadingFiles' = loadingFiles \ {d.id}
    /\ gesture' = [fn |-> "deleteResolved", files |-> <<>>]
    /\ UNCHANGED <<apiVars, wsVars, chatVars, listError, uploadError,
                   isUploading, uploads, uploadCount, fileUploaded>>

\* lines 245-255: the delete d is rejected with e
DeleteRejected(d, e) ==
    /\ BagIn(d, deletes)
    /\ deletes' = deletes (-) BagOf(d)
    /\ listError' = HandleError(e)
    /\ loadingFiles' = loadingFiles \ {d.id}
    /\ gesture' = [fn |-> "deleteRejected", files |-> <<>>]
    /\ UNCHANGED <<apiVars, wsVars, chatVars, files, fileDeleted, uploadError,
                   isUploading, uploads, uploadCount, fileUploaded>>

\* loadFiles, lines 194-208, when the backend answers: the files of the
\* session are looked at and nothing is done with them
LoadFilesResolved ==
    /\ gesture' = [fn |-> "loadFilesResolved", files |-> <<>>]
    /\ UNCHANGED <<apiVars, listVars, wsVars, chatVars, uploadError,
                   isUploading, uploads, uploadCount, fileUploaded>>

\* loadFiles, lines 204-207, when the request fails
LoadFilesRejected ==
    /\ gesture' = [fn |-> "loadFilesRejected", files |-> <<>>]
    /\ listError' = "Failed to load files"
    /\ UNCHANGED <<apiVars, wsVars, chatVars, files, loadingFiles, deletes,
                   fileDeleted, uploadError, isUploading, uploads, uploadCount,
                   fileUploaded>>

InitList ==
    /\ files = <<>>
    /\ loadingFiles = {}
    /\ listError = NoError
    /\ deletes = EmptyBag
    /\ fileDeleted = 0

\* the files are picked or dropped one at a time
NextFiles ==
    \/ \E fs \in FileLists(1) : HandleFileSelect(fs)
    \/ \E fs \in FileLists(1) : HandleDrop(fs)
    \/ \E u \in BagToSet(uploads) : UploadResolved(u)
    \/ \E u \in BagToSet(uploads), e \in Errs : UploadRejected(u, e)
    \/ \E id \in 1..MaxUploads, ok \in BOOLEAN : HandleDelete(id, ok)
    \/ \E d \in BagToSet(deletes) : DeleteResolved(d)
    \/ \E d \in BagToSet(deletes), e \in Errs : DeleteRejected(d, e)
    \/ LoadFilesResolved
    \/ LoadFilesRejected

InitUpload ==
    /\ uploadError = NoError
    /\ isUploading = FALSE
    /\ uploads = EmptyBag
    /\ uploadCount = 0
    /\ fileUploaded = 0
    /\ gesture = [fn |-> "none", files |-> <<>>]

NextUpload ==
    \/ \E fs \in FileLists(1) : HandleFileSelect(fs)
    \/ \E fs \in FileLists(MaxDropped) : HandleDrop(fs)
    \/ \E u \in BagToSet(uploads) : UploadResolved(u)
    \/ \E u \in BagToSet(uploads), e \in Errs : UploadRejected(u, e)

(***************************************************************************)
(* Initial states and specifications.                                     *)
(***************************************************************************)

InitHist == [connects |-> 0, drops |-> 0, reconnects |-> 0,
             capped |-> FALSE, clean |-> TRUE, cleared |-> FALSE,
             subscribes |-> 0, subscribed |-> NoneSubscribed]

InitWs ==
    /\ socket = NoSocket
    /\ isConnected = FALSE
    /\ reconnectAttempts = 0
    /\ timers = EmptyBag
    /\ ws = NoSocket
    /\ messageHandlers = <<>>
    /\ errorHandlers = <<>>
    /\ orphans = EmptyBag
    /\ invoked = NoPush
    /\ settle = NoSettle
    /\ sent = NoSend
    /\ hist = InitHist

\* the reconnect loop of the socket.io variant, up to the retry cap
InitReconnect ==
    /\ variant = "io"
    /\ limit = [sockets |-> MaxSockets, drops |-> MaxDrops, promises |-> 0]
    /\ listening = FALSE
    /\ InitWs
    /\ InitChat
    /\ InitUpload
    /\ InitApi
    /\ InitList

NextReconnect ==
    \/ \E sid \in Sessions : Connect(sid)
    \/ \E t \in BagToSet(timers) : TimerFire(t)
    \/ \E h \in Live(socket) : OnConnect(h)
    \/ \E h \in Live(socket), again \in BOOLEAN : OnDisconnect(h, again)
    \/ \E h \in Live(socket), again \in BOOLEAN : OnConnectError(h, again)
    \/ Disconnect

SpecReconnect == InitReconnect /\ [][NextReconnect]_vars

\* the real-time client with its subscribers, in either variant
Init ==
    /\ variant \in {"io", "native"}
    /\ limit = [sockets |-> MaxListenSockets, drops |-> MaxListenDrops,
                promises |-> 0]
    /\ listening = TRUE
    /\ InitWs
    /\ InitChat
    /\ InitUpload
    /\ InitApi
    /\ InitList

Next == NextIO \/ NextNative

Spec == Init /\ [][Next]_vars

\* the promises of connect, in either variant
InitConnect ==
    /\ variant \in {"io", "native"}
    /\ limit = [sockets |-> MaxPromises, drops |-> MaxPromiseDrops,
                promises |-> MaxPromises]
    /\ listening = TRUE
    /\ InitWs
    /\ InitChat
    /\ InitUpload
    /\ InitApi
    /\ InitList

NextConnect ==
    \/ NextReconnect
    \/ RemoveAllListeners
    \/ \E sid \in Sessions : NativeConnect(sid)
    \/ \E h \in Live(ws) : OnOpen(h)
    \/ \E h \in Live(ws) : OnError(h)
    \/ \E h \in Live(ws) : OnClose(h)
    \/ NativeDisconnect
    \/ \E m \in Msgs : WsSendMessage(m)
    \/ \E m \in Msgs : NativeSendMessage(m)

SpecConnect == InitConnect /\ [][NextConnect]_vars

\* the chat hook alone: the real-time client is never connected
InitIdleWs ==
    /\ variant = "io"
    /\ limit = [sockets |-> 0, drops |-> 0, promises |-> 0]
    /\ listening = FALSE
    /\ InitWs

InitChatAlone == InitIdleWs /\ InitChat /\ InitUpload /\ InitApi /\ InitList

\* the upload widget alone
InitUploadAlone == InitIdleWs /\ InitChat /\ InitUpload /\ InitApi /\ InitList

SpecUpload == InitUploadAlone /\ [][NextUpload]_vars

SpecChat == InitChatAlone /\ [][NextChat]_vars

\* the upload widget and the file list under one App
InitFiles == InitIdleWs /\ InitChat /\ InitUpload /\ InitApi /\ InitList

SpecFiles == InitFiles /\ [][NextFiles]_vars

\* handleError alone, on every error of ErrorShapes
InitHandleError ==
    /\ InitIdleWs
    /\ InitChat
    /\ InitUpload
    /\ InitList
    /\ handled \in {NotHandled(err) : err \in ErrorShapes}

NextHandleError == ApplyHandleError

SpecHandleError == InitHandleError /\ [][NextHandleError]_vars

(***************************************************************************)
(* The reconnect loop (socket.io variant).                                 *)
(***************************************************************************)

\* transports that are open
OpenCount ==
    (IF socket.st = "open" \/ ws.st = "open" THEN 1 ELSE 0)
        + BagCardinality([o \in {x \in BagToSet(orphans) : x.st = "open"}
                             |-> orphans[o]])

\* transports that are open or connecting
LiveCount ==
    LET up(s) == s.st \in {"connecting", "open"}
    IN  (IF up(socket) \/ up(ws) THEN 1 ELSE 0)
            + BagCardinality([o \in {x \in BagToSet(orphans) : up(x)}
                                 |-> orphans[o]])

\* C1: while the client has only been subject to transport drops within the
\* retry cap, every drop has led to exactly one reconnect attempt, made or
\* still on its timer, and a transport that opens leaves the client
\* Connected with the attempt counter reset.
C1_OneReconnectPerDrop ==
    [][ /\ (hist'.clean /\ ~hist'.capped)
            => hist'.reconnects + BagCardinality(timers') = hist'.drops
        /\ (hist.clean /\ OpenCount' > OpenCount)
            => (isConnected' /\ reconnectAttempts' = 0) ]_vars

\* C1 witness: one connect call by the caller, three drops, each followed
\* by a reconnect that succeeded
C1_Witness ==
    /\ hist.clean /\ ~hist.capped
    /\ hist.drops = 3 /\ hist.reconnects = 3 /\ hist.connects = 4
    /\ socket.st = "open" /\ isConnected /\ reconnectAttempts = 0
    /\ timers = EmptyBag

\* C2: a transport close that arrives with the attempt counter at the cap
\* sets no timer, makes no connect call, leaves the counter alone and
\* leaves the client not connected.
C2_NoRetryAfterCap ==
    [][ (reconnectAttempts = maxReconnectAttempts /\ hist'.drops > hist.drops)
            => /\ timers' = timers
               /\ hist'.connects = hist.connects
               /\ reconnectAttempts' = reconnectAttempts
               /\ ~isConnected' ]_vars

\* C2 witness: a close has arrived at the cap
C2_Witness ==
    /\ hist.capped
    /\ reconnectAttempts = maxReconnectAttempts
    /\ hist.drops = maxReconnectAttempts + 1
    /\ ~isConnected

\* C3: the delay before reconnect attempt k is 2^k seconds (counting the
\* attempts from 1 as the code does, or from 0).
C3_DelayIsPowerOfTwo ==
    \A t \in BagToSet(timers) :
        t.delay = 1000 * 2 ^ t.attempt \/ t.delay = 1000 * 2 ^ (t.attempt - 1)

\* C4: at most one transport made by the client is open or connecting.
C4_SingleConnection == LiveCount <= 1

(***************************************************************************)
(* The chat hook.                                                          *)
(***************************************************************************)

\* c is str without the blanks at its two ends
IsTrimOf(c, str) ==
    \E i \in 0..Len(str) :
        /\ i + Len(c) <= Len(str)
        /\ SubSeq(str, i + 1, i + Len(c)) = c
        /\ \A k \in 1..Len(str) : (k <= i \/ k > i + Len(c)) => str[k] = " "
        /\ c # <<>> => (c[1] # " " /\ c[Len(c)] # " ")

IsPrefix(a, b) == Len(a) <= Len(b) /\ SubSeq(b, 1, Len(a)) = a

\* the messages of a transcript that are not of type error, in order
NotErrors(msgs) == SelectSeq(msgs, LAMBDA m : m.message_type # "error")

\* the user messages of a transcript, in order
OfUser(msgs) == SelectSeq(msgs, LAMBDA m : m.message_type = "user")

\* the input without its leading and trailing blanks is not empty
NonBlank(str) == \E i \in 1..Len(str) : str[i] # " "

\* C5: a call of sendMessage with a session and an input that is not blank
\* appends exactly one message, of type user and with the trimmed input as
\* content, in the step that issues the request, so before any response.
C5_OptimisticAppend ==
    [][ (call'.fn = "sendMessage" /\ sessionId # "" /\ NonBlank(call'.arg))
            => /\ Len(messages') = Len(messages) + 1
               /\ IsPrefix(messages, messages')
               /\ messages'[Len(messages')].message_type = "user"
               /\ IsTrimOf(messages'[Len(messages')].content, call'.arg)
               /\ \E r \in BagToSet(requests') :
                     /\ r.op = "send"
                     /\ r.content = messages'[Len(messages')].content
                     /\ requests' = requests (+) BagOf(r)
               /\ BagCardinality(requests') = BagCardinality(requests) + 1 ]_vars

\* C5 witness: sendMessage(" a ") has appended the user message "a" and its
\* request awaits the response
C5_Witness ==
    /\ call = [fn |-> "sendMessage", arg |-> <<" ", "a", " ">>]
    /\ messages # <<>>
    /\ messages[Len(messages)].content = <<"a">>
    /\ messages[Len(messages)].message_type = "user"
    /\ BagCardinality(requests) = 1

\* C6: retryLastMessage with a user message in the transcript leaves no
\* error message in it and issues exactly one request, with the content of
\* the most recent user message.
C6_RetryResendsLastUserContent ==
    [][ (call'.fn = "retryLastMessage" /\ OfUser(messages) # <<>>)
            => /\ \A i \in 1..Len(messages') : messages'[i].message_type # "error"
               /\ sends' = sends + 1
               /\ requests' = requests (+) BagOf(
                     [op |-> "send",
                      content |-> OfUser(messages)[Len(OfUser(messages))].content,
                      session_id |-> sessionId]) ]_vars

\* C6 witness: a send failed, and the retry has removed its error message
\* and sent the content again
C6_Witness ==
    /\ call.fn = "retryLastMessage"
    /\ sends = 2
    /\ Len(messages) = 2
    /\ \A i \in 1..2 : messages[i].message_type = "user" /\ messages[i].content = <<"a">>
    /\ BagCardinality(requests) = 1

\* C7: in every step of the hook the previous transcript is a prefix of the
\* new one.
C7_AppendOnly == [][IsPrefix(messages, messages')]_vars

\* C7, amended: sendMessage and the replies to a send only append one
\* message; retryLastMessage, when the transcript has a user message, removes
\* the error messages, keeps the others in order and appends, and changes
\* nothing otherwise; a clear that succeeded empties the transcript and a
\* load that succeeded replaces it; no other step changes it.
C7_AppendOnlyUnderSend ==
    [][ /\ call'.fn \in {"sendMessage", "sendResolved", "sendRejected"}
            => IsPrefix(messages, messages') /\ Len(messages') <= Len(messages) + 1
        /\ call'.fn \in {"sendResolved", "sendRejected"}
            => Len(messages') = Len(messages) + 1
        /\ (call'.fn = "retryLastMessage" /\ OfUser(messages) # <<>>)
            => IsPrefix(NotErrors(messages), messages')
               /\ Len(messages') <= Len(NotErrors(messages)) + 1
        /\ (call'.fn = "retryLastMessage" /\ OfUser(messages) = <<>>)
            => messages' = messages
        /\ call'.fn = "clearResolved" => messages' = <<>>
        /\ call'.fn \in {"setSession", "clearHistory", "clearRejected",
                          "loadChatHistory", "loadRejected"}
            => messages' = messages ]_vars

\* C7 witness: a reply has been appended after the optimistic message, and a
\* retry has since removed an error message
C7_Witness ==
    /\ call.fn = "sendResolved"
    /\ Len(messages) = 3
    /\ messages[1].message_type = "user"
    /\ messages[2].message_type = "user"
    /\ messages[3].message_type = "assistant"
    /\ sends = 2
    /\ requests = EmptyBag

(***************************************************************************)
(* The upload widget.                                                      *)
(***************************************************************************)

\* C8: no upload request carries a file whose type is not PDF or whose size
\* exceeds 10MB, whether it was picked or dropped.
C8_NoUploadOfRejectedFile ==
    \A u \in BagToSet(uploads) :
        /\ \E i \in 1..(Len(u.file.type) - 2) : SubSeq(u.file.type, i, i + 2) = <<"p", "d", "f">>
        /\ u.file.size <= 10 * 1024 * 1024

(***************************************************************************)
(* Subscribers of the real-time client.                                    *)
(***************************************************************************)

\* C9: a push event delivered after removeAllListeners, with no handler
\* subscribed since, runs no subscriber handler.
C9_NoHandlerAfterRemoveAll ==
    (invoked.push /\ hist.cleared) => invoked.handlers = <<>>

\* C10: a push event that arrives on the client's transport runs the
\* handlers subscribed for it since the last explicit removeAllListeners,
\* whatever disconnects, drops and reconnects came in between.
C10_HandlersSurviveDisconnect ==
    (invoked.push /\ invoked.cur /\ invoked.parsed)
        => invoked.handlers = hist.subscribed[invoked.ev]

(***************************************************************************)
(* The promise of connect.                                                 *)
(***************************************************************************)

\* C11: the promise of a connect call is resolved when its transport
\* reports open, rejected when its transport reports an error before that,
\* and once settled it keeps its outcome.
C11_ConnectPromiseSettles ==
    /\ (settle.ev = "open" /\ settle.was = "pending") => settle.now = "resolved"
    /\ (settle.ev = "error" /\ settle.was = "pending") => settle.now = "rejected"
    /\ settle.was # "pending" => settle.now = settle.was

\* C11, amended: with the listeners of connect() on the transport, its
\* report of open resolves a pending promise, and its report of an error
\* rejects a pending promise in the native variant always and in the
\* socket.io variant when reconnectAttempts is 0; an error with the counter
\* above 0, and any report of a socket removeAllListeners() has stripped,
\* leaves the promise as it was; a settled promise keeps its outcome.
C11_ConnectPromiseSettlesAtFirstAttempt ==
    /\ (settle.ev = "open" /\ settle.was = "pending" /\ settle.life)
           => settle.now = "resolved"
    /\ (settle.ev = "error" /\ settle.was = "pending" /\ settle.life
           /\ (variant = "native" \/ settle.attempts = 0))
           => settle.now = "rejected"
    /\ (settle.ev = "error" /\ variant = "io" /\ settle.attempts # 0)
           => settle.now = settle.was
    /\ (settle.ev # "none" /\ ~settle.life) => settle.now = settle.was
    /\ settle.was # "pending" => settle.now = settle.was

\* C11 witness: a promise rejected by an error before the transport opened
\* stays rejected when the transport opens after all and resolve is called
C11_Witness ==
    /\ settle.ev = "open" /\ settle.fn = "resolve"
    /\ settle.was = "rejected" /\ settle.now = "rejected"

\* C12: a connection error rejects a promise only with reconnectAttempts
\* at 0, and a rejection made with the counter above 0, or of the promise
\* of a reconnect attempt, reaches no caller: the promise of a reconnect
\* attempt has the catch of handleReconnect on it.
C12_RejectsOnlyAtFirstAttempt ==
    /\ (variant = "io" /\ settle.fn = "reject") => settle.attempts = 0
    /\ (variant = "io" /\ settle.ev = "error" /\ settle.attempts # 0)
           => settle.now = settle.was
    /\ (variant = "io" /\ settle.was = "pending" /\ settle.now = "rejected"
           /\ ~settle.caught) => settle.attempts = 0

\* C12 witness: an error on the socket of a reconnect attempt, with the
\* counter above 0, has left the promise of the attempt pending
C12_Witness ==
    /\ variant = "io"
    /\ settle.ev = "error" /\ settle.caught /\ settle.attempts > 0
    /\ settle.fn = "none" /\ settle.now = "pending"

\* C13: disconnect() cancels no pending reconnect timer, and a timer leaves
\* the pending ones only by firing, which makes a connect call for the
\* session id of the timer, also after disconnect() has set the socket to
\* null.
C13_DisconnectKeepsTimers ==
    [][ /\ (~IsNull(socket) /\ IsNull(socket'))
            => \A t \in BagToSet(timers) : CopiesIn(t, timers') >= CopiesIn(t, timers)
        /\ BagCardinality(timers') < BagCardinality(timers)
            => /\ hist'.connects = hist.connects + 1
               /\ socket'.st = "connecting"
               /\ \E t \in BagToSet(timers) :
                     /\ timers' = timers (-) BagOf(t)
                     /\ socket'.sid = t.sid ]_vars

\* C13 witness: one connect call by the caller, one drop that set a timer,
\* disconnect() with the timer pending, then the timer fired and the
\* transport of its connect call opened
C13_Witness ==
    /\ ~hist.clean
    /\ hist.connects = 2 /\ hist.reconnects = 1 /\ hist.drops = 1
    /\ timers = EmptyBag
    /\ socket.st = "open" /\ isConnected

\* C14: a call of sendMessage hands exactly one frame to the transport when
\* the service references a transport that is open, and none when it
\* references none or one that is not open.
C14_SendsOnlyWhenOpen ==
    sent.call => Len(sent.frames) = (IF sent.open THEN 1 ELSE 0)

(***************************************************************************)
(* Dispatch of incoming payloads.                                          *)
(***************************************************************************)

\* C15: an incoming payload that parses runs the general handler (the one
\* subscribed with onMessage) first and then the handler subscribed for the
\* payload's own type, and no handler subscribed for another type.
C15_GeneralThenTypeSpecific ==
    (invoked.push /\ invoked.cur /\ invoked.parsed /\ invoked.ev # "error")
        => invoked.handlers =
              IF variant = "io"
              THEN ListenersFor(socket, "message")
                   \o (IF invoked.ev = "message" THEN <<>>
                       ELSE ListenersFor(socket, invoked.ev))
              ELSE messageHandlers

\* C16: a payload that JSON.parse rejects runs no message handler and
\* leaves the WebSocket, the other WebSockets and the handler arrays as they
\* were, and a well-formed payload that comes next runs every message
\* handler.
C16_MalformedPayloadIsHarmless ==
    [][(variant = "native" /\ invoked'.push /\ invoked'.ev = "message")
          => /\ ~invoked'.parsed
                  => /\ invoked'.handlers = <<>>
                     /\ UNCHANGED <<ws, orphans, messageHandlers, errorHandlers>>
             /\ (invoked.push /\ invoked.ev = "message" /\ ~invoked.parsed
                    /\ invoked'.parsed)
                  => invoked'.handlers = messageHandlers]_vars

\* a malformed payload has arrived on the open WebSocket of a service that
\* has a message handler
C16_Witness ==
    /\ variant = "native"
    /\ invoked.push /\ invoked.cur /\ invoked.ev = "message" /\ ~invoked.parsed
    /\ ws.st = "open"
    /\ messageHandlers # <<>>

(***************************************************************************)
(* The error-extraction helper.                                            *)
(***************************************************************************)

RECURSIVE JoinedBy(_, _)
\* the strings of items joined by the separator sep
JoinedBy(items, sep) ==
    IF items = <<>> THEN <<>>
    ELSE IF Len(items) = 1 THEN items[1]
    ELSE items[1] \o sep \o JoinedBy(Tail(items), sep)

\* C17: handleError returns the message of each backend shape: the error
\* string of an {error} body, the detail string of a {detail} body, and the
\* msg strings joined by ", " of a {detail} body that is an array of {msg}.
C17_ExtractsBackendMessage ==
    (handled.done /\ handled.error.t = "object" /\ handled.error.response.data)
        => LET body == handled.error.response
           IN  /\ (body.error.t = "string" /\ body.error.s # <<>>
                      /\ body.detail = Undefined)
                    => handled.out = Returns(body.error)
               /\ (body.error = Undefined /\ body.detail.t = "string")
                    => handled.out = Returns(body.detail)
               /\ (body.error = Undefined /\ body.detail.t = "array"
                      /\ body.detail.items # <<>>)
                    => handled.out
                          = Returns(Str(JoinedBy(body.detail.items, <<", ">>)))

\* C18: handleError returns the message of an error that has one and no
\* response, the generic fallback string for an error that has neither a
\* backend message nor a message of its own, and in every case returns a
\* string and does not throw.
C18_ReturnsMessageOrFallback ==
    handled.done
        => /\ ~handled.out.throws
           /\ handled.out.value.t = "string"
           /\ (handled.error.t = "object" /\ ~handled.error.response.present)
                => handled.out.value
                      = IF Truthy(handled.error.message)
                        THEN handled.error.message
                        ELSE Str(<<"An unexpected error occurred">>)

(***************************************************************************)
(* The file list.                                                          *)
(***************************************************************************)

\* the ids in a list of files
Ids(list) == {list[i] : i \in 1..Len(list)}

\* what a step that ends an upload or a delete with success does to the
\* list and to the counts of onFileUploaded and onFileDeleted calls, and
\* what every other step leaves alone
ListFollowsSuccess ==
    /\ gesture'.fn = "uploadResolved"
         => /\ fileUploaded' = fileUploaded + 1
            /\ Len(files') = Len(files) + 1
            /\ \E id \in Ids(files') \ Ids(files) : Ids(files') = Ids(files) \cup {id}
    /\ gesture'.fn = "deleteResolved"
         => /\ fileDeleted' = fileDeleted + 1
            /\ \E id \in loadingFiles : Ids(files') = Ids(files) \ {id}
    /\ fileUploaded' # fileUploaded => gesture'.fn = "uploadResolved"
    /\ fileDeleted' # fileDeleted => gesture'.fn = "deleteResolved"
    /\ files' # files => gesture'.fn \in {"uploadResolved", "deleteResolved"}

\* a step that ends an upload or a delete with a failure, or refuses the
\* file picked or dropped, sets the error of its component
FailureSetsError ==
    /\ gesture'.fn = "uploadRejected" => uploadError' # NoError
    /\ (gesture'.fn \in {"handleFileSelect", "handleDrop"}
          /\ gesture'.files # <<>> /\ uploadCount' = uploadCount)
         => uploadError' # NoError
    /\ gesture'.fn = "deleteRejected" => listError' # NoError

\* the step is a cancelled action: a file dialog closed with no file, or a
\* delete the user did not confirm
IsCancelled ==
    \/ gesture'.fn = "handleFileSelect" /\ gesture'.files = <<>>
    \/ gesture'.fn = "deleteCancelled"

C20_IgnoredInputChangesNothing ==
    [][(call'.fn = "sendMessage" /\ (sessionId = "" \/ ~NonBlank(call'.arg)))
          => UNCHANGED <<messages, isLoading, error, requests, sends>>]_vars

\* sendMessage(" ") has been called in a session while an earlier send
\* awaits its response
C20_Witness ==
    /\ call = [fn |-> "sendMessage", arg |-> <<" ">>]
    /\ sessionId # ""
    /\ messages # <<>>
    /\ isLoading
    /\ BagCardinality(requests) = 1

(***************************************************************************)
(* The outcome of a send.                                                  *)
(***************************************************************************)

\* the requests of kind op awaiting their response
InFlight(reqs, op) ==
    LET S == {r \in BagToSet(reqs) : r.op = op}
    IN  IF S = {} THEN 0 ELSE BagCardinality([r \in S |-> CopiesIn(r, reqs)])

\* C21: the step in which a send is answered takes that one request off
\* the requests in flight, appends exactly one message to the transcript,
\* the assistant's on success and on failure a message of type error with
\* show_retry set and the text of handleError, and leaves isLoading false.
C21_SendSettlesWithOneReply ==
    [][/\ call'.fn \in {"sendResolved", "sendRejected"}
            => /\ InFlight(requests', "send") = InFlight(requests, "send") - 1
               /\ Len(messages') = Len(messages) + 1
               /\ IsPrefix(messages, messages')
               /\ ~isLoading'
       /\ call'.fn = "sendResolved"
            => messages'[Len(messages')].message_type = "assistant"
       /\ call'.fn = "sendRejected"
            => /\ messages'[Len(messages')].message_type = "error"
               /\ messages'[Len(messages')].show_retry
               /\ error' # NoError
               /\ messages'[Len(messages')].content = <<"Error: ", error'>>]_vars

\* a send has failed: its error message, with the retry flag, ends the
\* transcript after the user message, and nothing is loading
C21_Witness ==
    /\ call.fn = "sendRejected"
    /\ Len(messages) = 2
    /\ messages[1].message_type = "user"
    /\ messages[2].message_type = "error"
    /\ messages[2].show_retry
    /\ ~isLoading
    /\ requests = EmptyBag

(***************************************************************************)
(* clearHistory and loadChatHistory.                                       *)
(***************************************************************************)

\* C22: the transcript is replaced in the step in which the backend answers
\* a clear (by the empty transcript, and the error is cleared) or a load
\* (by the history returned); when the backend refuses, the transcript
\* stays and the error is set; the calls themselves change nothing of the
\* hook's state, and without a session id they send no request either.
C22_HistoryReplacedOnlyOnSuccess ==
    [][/\ call'.fn = "clearResolved" => messages' = <<>> /\ error' = NoError
       /\ call'.fn = "loadResolved"
            => messages' \in Histories(sessionId) /\ error' = error
       /\ call'.fn \in {"clearRejected", "loadRejected"}
            => messages' = messages /\ error' # NoError
       /\ call'.fn \in {"clearHistory", "loadChatHistory"}
            => /\ UNCHANGED <<messages, isLoading, error>>
               /\ sessionId = "" => requests' = requests]_vars

\* a transcript that held a sent message has been emptied by a clear the
\* backend accepted
C22_Witness ==
    /\ call.fn = "clearResolved"
    /\ sends > 0
    /\ messages = <<>>
    /\ error = NoError

(***************************************************************************)
(* The connected flag.                                                     *)
(***************************************************************************)

\* C23: getConnectionStatus() is true exactly when the socket the service
\* references is open, whatever the sockets it referenced before report.
C23_FlagAgreesWithTransport ==
    variant = "io" => (isConnected <=> (~IsNull(socket) /\ socket.st = "open"))

\* C24: a call of disconnect() made with no reconnect timer pending leaves
\* the connected flag false and no reconnect timer pending, so that no
\* transport is made before the caller calls connect() again.
C24_DisconnectSchedulesNoReconnect ==
    [][(variant = "io" /\ ~IsNull(socket) /\ IsNull(socket')
          /\ timers = EmptyBag)
          => (~isConnected' /\ timers' = EmptyBag)]_vars

(***************************************************************************)
(* The reconnect attempt counter.                                          *)
(***************************************************************************)

\* C25: reconnectAttempts stays within 0..maxReconnectAttempts, grows only
\* by one and only in a step that sets a reconnect timer, and is 0 after
\* every step in which a socket of the client opens.
C25_AttemptsCountFailedRecoveries ==
    [][variant = "io"
          => /\ reconnectAttempts' \in 0..maxReconnectAttempts
             /\ reconnectAttempts' > reconnectAttempts
                  => /\ reconnectAttempts' = reconnectAttempts + 1
                     /\ BagCardinality(timers') = BagCardinality(timers) + 1
             /\ OpenCount' = OpenCount + 1 => reconnectAttempts' = 0]_vars

(***************************************************************************)
(* isLoading under overlapping sends.                                      *)
(***************************************************************************)

\* C26: isLoading is true as long as a send awaits its response, also when
\* more than one does.
C26_LoadingWhileSendInFlight ==
    InFlight(requests, "send") > 0 => isLoading

====
